---------------------------- MODULE Spec2Model ----------------------------
(***************************************************************************)
(* Model of the quote catalogue back end (Gas.QuoteApi, the resolver       *)
(* GasWeb.QuoteResolver) over a transactional relational store.            *)
(*                                                                         *)
(* Strings are sequences of one-character strings, so that parsing,        *)
(* interpolation and substring matching are computed and not assumed.      *)
(* The store gives read-committed transactions: the rows a transaction     *)
(* writes are staged per writer and reach the tables at its commit.        *)
(*                                                                         *)
(* The client component NewQuote (source fetching, form validation and     *)
(* submit) is modelled beside it, with specifications of its own.          *)
(***************************************************************************)
EXTENDS Integers, Sequences, FiniteSets, Bags, TLC

\* ------------------------------------------------------------ bounds ----
\* Quote ids the sequence of the quotes table may hand out.
MaxId == 2
\* Longest tags list of a creation request.
MaxTagsLen == 2

\* The calls of fetchSource are counted modulo this number.
FetchCallsModulus == 2

\* ------------------------------------------------------------ values ----
Writers == {"w1", "w2"}

\* SQL NULL in a text column.
Null == <<"NULL">>

Digits == <<"0", "1", "2", "3", "4", "5", "6", "7", "8", "9">>

IsDigit(c) == \E i \in 1..10 : Digits[i] = c

DigitVal(c) == (CHOOSE i \in 1..10 : Digits[i] = c) - 1

\* Integer.to_string for a natural number.
RECURSIVE NatToString(_)
NatToString(n) ==
    IF n < 10 THEN <<Digits[n + 1]>>
    ELSE Append(NatToString(n \div 10), Digits[(n % 10) + 1])

\* Integer.to_string.
IntegerToString(n) == IF n < 0 THEN <<"-">> \o NatToString(0 - n) ELSE NatToString(n)

\* Value of a non-empty sequence of digits.
RECURSIVE DigitsToNat(_)
DigitsToNat(s) ==
    IF Len(s) = 0 THEN 0
    ELSE 10 * DigitsToNat(SubSeq(s, 1, Len(s) - 1)) + DigitVal(s[Len(s)])

AllDigits(s) == Len(s) > 0 /\ \A i \in 1..Len(s) : IsDigit(s[i])

\* String.to_integer/1: an optional sign followed by digits; anything else
\* raises ArgumentError (ok = FALSE).
StringToInteger(s) ==
    IF AllDigits(s) THEN [ok |-> TRUE, val |-> DigitsToNat(s)]
    ELSE IF Len(s) > 1 /\ s[1] \in {"+", "-"} /\ AllDigits(Tail(s))
         THEN [ok |-> TRUE,
               val |-> IF s[1] = "-" THEN 0 - DigitsToNat(Tail(s)) ELSE DigitsToNat(Tail(s))]
         ELSE [ok |-> FALSE, val |-> 0]

\* An element of the tags list: String.t() | Integer.t().
IntElem(n) == [kind |-> "int", int |-> n, str |-> <<>>]
StrElem(s) == [kind |-> "str", int |-> 0, str |-> s]

\* "#{&1}": string interpolation of a tags element.
Interpolate(e) == IF e.kind = "int" THEN IntegerToString(e.int) ELSE e.str

\* tag_id: String.to_integer("#{&1}")
ParseTag(e) == StringToInteger(Interpolate(e))

\* ------------------------------------------------------------ inputs ----
TagElems == {StrElem(<<"1">>), IntElem(2), IntElem(9), StrElem(<<"x">>)}

TagLists == UNION {[1..n -> TagElems] : n \in 0..MaxTagsLen}

TextValues == {<<>>, <<"a", "B">>}

SourceIds == {1, 9}

Inputs == [text : TextValues, source_id : SourceIds, tags : TagLists]

\* The requests of each writer: w1 sends every request, the concurrent writer
\* w2 the requests with a text, an existing source and at most one tag.
InputsOf(p) ==
    IF p = "w1" THEN Inputs
    ELSE {i \in Inputs : /\ i.text # <<>>
                         /\ i.source_id = 1
                         /\ i.tags \in {<<>>} \cup {<<e>> : e \in TagElems}}

\* The texts searched for: one that matches rows, one that matches none.
SearchTexts == {<<"B">>, <<"z">>}

\* The arguments of get_quotes_by: nil, or a map with or without a source.
NilFilter == [nil |-> TRUE, source |-> 0]
MapFilter(src) == [nil |-> FALSE, source |-> src]
NoSource == 0
Filters == {NilFilter, MapFilter(NoSource), MapFilter(1), MapFilter(2)}

NoInput == [text |-> <<>>, source_id |-> 0, tags |-> <<>>]

\* ------------------------------------------------------------ seed data --
SeedSourceTypes == {[id |-> 1, name |-> <<"J">>]}

SeedSources ==
    {[id |-> 1, author |-> <<"A", "b">>, topic |-> <<"A", "b">>,
      publication |-> <<"b", "c">>, url |-> Null, source_type_id |-> 1],
     [id |-> 2, author |-> <<"c">>, topic |-> <<"a", "b">>,
      publication |-> Null, url |-> Null, source_type_id |-> 1]}

SeedTags == {[id |-> 1, text |-> <<"a", "b">>], [id |-> 2, text |-> <<"c">>]}

\* ------------------------------------------------------------ state -----
VARIABLES
    quotes,        \* committed rows of table quotes
    quote_tags,    \* committed rows of table quote_tags (a bag: no unique index)
    sources,       \* table sources
    source_types,  \* table source_types
    tags,          \* table tags
    nextId,        \* next value of the quotes id sequence
    clock,         \* wall clock read by Timex.now()
    pc,            \* per writer: position in create_quote / create_with_tags
    input,         \* per writer: the inputs of the current or last call
    txQuote,       \* per writer: quote rows staged in the open transaction
    txTags,        \* per writer: quote_tags rows staged in the open transaction
    result,        \* per writer: what create_with_tags returned or raised
    response,      \* per writer: what the resolver create_quote returned
    requestOf,     \* history: quote id -> the tags list of its creation request
    txId,          \* history, per writer: the quote id its current call drew (0: none)
    read,          \* the last read request and what it returned
    props,         \* NewQuote: match.params.sourceId of the route
    state,         \* NewQuote: this.state
    form,          \* NewQuote: the state of the Formik form it renders
    inflight,      \* NewQuote: the variables of the source queries not yet settled
    fetchCalls,    \* NewQuote: number of calls of fetchSource (modulo FetchCallsModulus)
    mutation,      \* NewQuote: the createQuote call of submit
    mounted        \* NewQuote: componentDidMount has run

svars == <<quotes, quote_tags, sources, source_types, tags, nextId, clock,
           pc, input, txQuote, txTags, result, response, requestOf, txId, read>>

cvars == <<props, state, form, inflight, fetchCalls, mutation, mounted>>

vars == <<svars, cvars>>

tables == <<quotes, quote_tags, sources, source_types, tags>>

NoResult ==
    [kind |-> "none", step |-> "", fields |-> {}, succ |-> {}, quote |-> 0, count |-> 0]

OkResult(id, n) ==
    [kind |-> "ok", step |-> "", fields |-> {}, succ |-> {}, quote |-> id, count |-> n]

\* {:error, failed_operation, changeset, successful_operations}
ErrorResult(step, fields, succ) ==
    [kind |-> "error", step |-> step, fields |-> fields, succ |-> succ, quote |-> 0, count |-> 0]

\* An exception that leaves create_with_tags.
RaiseResult(exception) ==
    [kind |-> "raise", step |-> exception, fields |-> {}, succ |-> {}, quote |-> 0, count |-> 0]

\* A read request and its reply: rows for get_quotes_by, buckets (a set of
\* [bucket, rows], one per key of the returned map) for full_text_search;
\* logged is the grouped query result that full_text_search writes to the log.
NoRead ==
    [op |-> "none", text |-> <<>>, filter |-> NilFilter, rows |-> {}, buckets |-> {},
     logged |-> {}]

\* A value that is undefined (or null) in the client.
Undefined == "undefined"

\* !v of a string or of an object that its id stands for.
Falsy(v) == v \in {"", Undefined}

\* The keys of FormValues, in the order of the fields of the form.
FormKeys == <<"tags", "source", "quote", "page", "volumeIssue", "date", "extras">>

\* initialFormValues: tags is a list of tag ids, a source is given by its id.
InitialFormValues ==
    [tags |-> <<>>, source |-> "", quote |-> "", page |-> "", volumeIssue |-> "",
     date |-> "", extras |-> ""]

\* formOutputs before any validator has set a field (tags <<>>: not set).
InitialFormOutputs ==
    [tags |-> <<>>, sourceId |-> Undefined, text |-> Undefined, pageStart |-> Undefined,
     pageEnd |-> Undefined, volume |-> Undefined, issue |-> Undefined,
     date |-> Undefined, extras |-> Undefined]

\* state.queryResult when undefined.
NoQueryResult == [defined |-> FALSE, variables |-> Undefined, source |-> Undefined]

\* The state of NewQuote at construction.
ConstructedState ==
    [sourceId |-> Undefined, queryResult |-> NoQueryResult, graphqlError |-> Undefined,
     submittedSourceId |-> Undefined, initialFormValues |-> InitialFormValues,
     formOutputs |-> InitialFormOutputs, selectedTags |-> <<>>]

\* Formik's state for initial values v: nothing changed, nothing validated.
FormikState(v) ==
    [values |-> v, initialValues |-> v, errors |-> {}, ran |-> {}, isSubmitting |-> FALSE]

\* No createQuote call is open and none has ended.
NoMutation ==
    [pending |-> FALSE, variables |-> InitialFormOutputs, values |-> InitialFormValues,
     outcome |-> "none"]

\* The component constructed on the route with source id sid, not yet mounted.
Constructed(sid) ==
    /\ props = sid
    /\ state = ConstructedState
    /\ form = FormikState(InitialFormValues)
    /\ inflight = {}
    /\ fetchCalls = 0
    /\ mutation = NoMutation
    /\ mounted = FALSE

\* The store when the application starts.
StoreInit ==
    /\ quotes = {}
    /\ quote_tags = EmptyBag
    /\ sources = SeedSources
    /\ source_types = SeedSourceTypes
    /\ tags = SeedTags
    /\ nextId = 1
    /\ clock = 1
    /\ pc = [p \in Writers |-> "idle"]
    /\ input = [p \in Writers |-> NoInput]
    /\ txQuote = [p \in Writers |-> {}]
    /\ txTags = [p \in Writers |-> <<>>]
    /\ result = [p \in Writers |-> NoResult]
    /\ response = [p \in Writers |-> NoResult]
    /\ requestOf = <<>>
    /\ txId = [p \in Writers |-> 0]
    /\ read = NoRead

Init == StoreInit /\ Constructed(Undefined)

\* --------------------------------------------------- create_with_tags ----
\* Quote.changeset: the fields with a validation error (text is required).
ChangesetErrors(attrs) == IF attrs.text = <<>> THEN {"text"} ELSE {}

\* The foreign key quotes.source_id -> sources.id.
SourceExists(id) == \E s \in sources : s.id = id

\* The foreign key quote_tags.tag_id -> tags.id.
TagExists(id) == \E t \in tags : t.id = id

QuoteRow(id, attrs) ==
    [id |-> id, text |-> attrs.text, source_id |-> attrs.source_id,
     volume |-> Null, issue |-> Null, extras |-> Null]

\* Variant: the time is read for every row, not once for the call.
QuoteTagRowsOwnTime(tagList, id, now) ==
    [i \in 1..Len(tagList) |->
        [tag_id |-> ParseTag(tagList[i]).val, quote_id |-> id,
         inserted_at |-> now + i - 1, updated_at |-> now + i - 1]]

\* Variant: the rows are built from all but the first element of the tags list.
QuoteTagRowsTail(tagList, id, now) ==
    [i \in 1..(Len(tagList) - 1) |->
        [tag_id |-> ParseTag(tagList[i + 1]).val, quote_id |-> id,
         inserted_at |-> now, updated_at |-> now]]

\* Enum.map(tags, &[tag_id: ..., quote_id: id, inserted_at: now, updated_at: now])
QuoteTagRows(tagList, id, now) ==
    [i \in 1..Len(tagList) |->
        [tag_id |-> ParseTag(tagList[i]).val, quote_id |-> id,
         inserted_at |-> now, updated_at |-> now]]

\* Variant: insert_all keeps one row of each (quote, tag) pair.
SeqToBagDistinct(s) == SetToBag({s[i] : i \in 1..Len(s)})

\* Multi.insert_all(:quote_tags, QuoteTag, quote_tags): every entry is a row.
RECURSIVE SeqToBag(_)
SeqToBag(s) == IF Len(s) = 0 THEN EmptyBag ELSE SetToBag({Head(s)}) (+) SeqToBag(Tail(s))

\* GasWeb.QuoteResolver.create_quote: the case on what create_with_tags
\* returned; an exception passes through it to the caller.
CreateQuoteCase(r) ==
    IF r.kind = "ok" THEN OkResult(r.quote, 0)
    ELSE IF r.kind = "error" THEN ErrorResult(r.step, r.fields, {})
    ELSE r

\* create_with_tags ends with r and create_quote maps it for the caller.
Returns(p, r) ==
    /\ result' = [result EXCEPT ![p] = r]
    /\ response' = [response EXCEPT ![p] = CreateQuoteCase(r)]
    /\ pc' = [pc EXCEPT ![p] = "replied"]

\* Variant: the foreign key of the source is not checked at the insert.
InsertQuoteNoForeignKey(p, inputs) ==
    /\ pc[p] = "idle"
    /\ input' = [input EXCEPT ![p] = inputs]
    /\ IF ChangesetErrors(inputs) # {}
       THEN /\ Returns(p, ErrorResult("quote", ChangesetErrors(inputs), {}))
            /\ UNCHANGED <<nextId, txQuote, txId>>
       ELSE /\ nextId <= MaxId
            /\ nextId' = nextId + 1
            /\ txId' = [txId EXCEPT ![p] = nextId]
            /\ txQuote' = [txQuote EXCEPT ![p] = {QuoteRow(nextId, inputs)}]
            /\ pc' = [pc EXCEPT ![p] = "merge"]
            /\ UNCHANGED <<result, response>>
    /\ UNCHANGED <<tables, clock, txTags, requestOf, read>>

\* Variant: the quote is inserted without the changeset being validated.
InsertQuoteUnvalidated(p, inputs) ==
    /\ pc[p] = "idle"
    /\ input' = [input EXCEPT ![p] = inputs]
    /\ nextId <= MaxId
    /\ nextId' = nextId + 1
    /\ txId' = [txId EXCEPT ![p] = nextId]
    /\ IF ~SourceExists(inputs.source_id)
       THEN /\ Returns(p, ErrorResult("quote", {"source"}, {}))
            /\ UNCHANGED txQuote
       ELSE /\ txQuote' = [txQuote EXCEPT ![p] = {QuoteRow(nextId, inputs)}]
            /\ pc' = [pc EXCEPT ![p] = "merge"]
            /\ UNCHANGED <<result, response>>
    /\ UNCHANGED <<tables, clock, txTags, requestOf, read>>

\* Variant: the quote is inserted outside the transaction of the tags, so it
\* is in the table at once.
InsertQuoteAutocommit(p, inputs) ==
    /\ pc[p] = "idle"
    /\ input' = [input EXCEPT ![p] = inputs]
    /\ IF ChangesetErrors(inputs) # {}
       THEN /\ Returns(p, ErrorResult("quote", ChangesetErrors(inputs), {}))
            /\ UNCHANGED <<nextId, txQuote, txId, quotes>>
       ELSE /\ nextId <= MaxId
            /\ nextId' = nextId + 1
            /\ txId' = [txId EXCEPT ![p] = nextId]
            /\ IF ~SourceExists(inputs.source_id)
               THEN /\ Returns(p, ErrorResult("quote", {"source"}, {}))
                    /\ UNCHANGED <<txQuote, quotes>>
               ELSE /\ txQuote' = [txQuote EXCEPT ![p] = {QuoteRow(nextId, inputs)}]
                    /\ quotes' = quotes \cup {QuoteRow(nextId, inputs)}
                    /\ pc' = [pc EXCEPT ![p] = "merge"]
                    /\ UNCHANGED <<result, response>>
    /\ UNCHANGED <<quote_tags, sources, source_types, tags, clock, txTags, requestOf, read>>

\* Repo.transaction opens the transaction and Multi.insert(:quote, ...) runs:
\* an invalid changeset or a violated foreign key rolls back and returns
\* {:error, :quote, changeset, %{}}; otherwise the quote row is staged.
InsertQuote(p, inputs) ==
    /\ pc[p] = "idle"
    /\ input' = [input EXCEPT ![p] = inputs]
    /\ IF ChangesetErrors(inputs) # {}
       THEN /\ Returns(p, ErrorResult("quote", ChangesetErrors(inputs), {}))
            /\ UNCHANGED <<nextId, txQuote, txId>>
       ELSE /\ nextId <= MaxId
            /\ nextId' = nextId + 1
            /\ txId' = [txId EXCEPT ![p] = nextId]
            /\ IF ~SourceExists(inputs.source_id)
               THEN /\ Returns(p, ErrorResult("quote", {"source"}, {}))
                    /\ UNCHANGED txQuote
               ELSE /\ txQuote' = [txQuote EXCEPT ![p] = {QuoteRow(nextId, inputs)}]
                    /\ pc' = [pc EXCEPT ![p] = "merge"]
                    /\ UNCHANGED <<result, response>>
    /\ UNCHANGED <<tables, clock, txTags, requestOf, read>>

\* create_quote is called with a request and calls create_with_tags.
CreateWithTags(p) == \E inputs \in InputsOf(p) : InsertQuote(p, inputs)

\* Variant: an exception in the merge step leaves the inserted quote in place.
MergeQuoteTagsKeepsQuote(p) ==
    /\ pc[p] = "merge"
    /\ LET id == (CHOOSE q \in txQuote[p] : TRUE).id
           tagList == input[p].tags
           now == clock
       IN  /\ clock' = clock + 1
           /\ IF \E i \in 1..Len(tagList) : ~ParseTag(tagList[i]).ok
              THEN /\ Returns(p, RaiseResult("ArgumentError"))
                   /\ quotes' = quotes \cup txQuote[p]
                   /\ txQuote' = [txQuote EXCEPT ![p] = {}]
                   /\ UNCHANGED txTags
              ELSE IF \E i \in 1..Len(tagList) : ~TagExists(ParseTag(tagList[i]).val)
              THEN /\ Returns(p, RaiseResult("Postgrex.Error"))
                   /\ quotes' = quotes \cup txQuote[p]
                   /\ txQuote' = [txQuote EXCEPT ![p] = {}]
                   /\ UNCHANGED txTags
              ELSE /\ txTags' = [txTags EXCEPT ![p] = QuoteTagRows(tagList, id, now)]
                   /\ pc' = [pc EXCEPT ![p] = "commit"]
                   /\ UNCHANGED <<result, response, txQuote, quotes>>
    /\ UNCHANGED <<quote_tags, sources, source_types, tags, nextId, input, requestOf, txId, read>>

\* Variant: insert_all leaves out the rows whose tag does not exist and goes on.
MergeQuoteTagsSkipsMissing(p) ==
    /\ pc[p] = "merge"
    /\ LET id == (CHOOSE q \in txQuote[p] : TRUE).id
           tagList == input[p].tags
           now == clock
           exists(r) == TagExists(r.tag_id)
       IN  /\ clock' = clock + 1
           /\ IF \E i \in 1..Len(tagList) : ~ParseTag(tagList[i]).ok
              THEN /\ Returns(p, RaiseResult("ArgumentError"))
                   /\ txQuote' = [txQuote EXCEPT ![p] = {}]
                   /\ UNCHANGED txTags
              ELSE /\ txTags' = [txTags EXCEPT ![p] =
                                   SelectSeq(QuoteTagRows(tagList, id, now), exists)]
                   /\ pc' = [pc EXCEPT ![p] = "commit"]
                   /\ UNCHANGED <<result, response, txQuote>>
    /\ UNCHANGED <<tables, nextId, input, requestOf, txId, read>>

\* The function given to Multi.merge and the Multi.insert_all it returns:
\* String.to_integer raises on an element that is no integer, insert_all raises
\* on a violated foreign key; an exception rolls the transaction back and
\* leaves create_with_tags.
MergeQuoteTags(p) ==
    /\ pc[p] = "merge"
    /\ LET id == (CHOOSE q \in txQuote[p] : TRUE).id
           tagList == input[p].tags
           now == clock
       IN  /\ clock' = clock + 1
           /\ IF \E i \in 1..Len(tagList) : ~ParseTag(tagList[i]).ok
              THEN /\ Returns(p, RaiseResult("ArgumentError"))
                   /\ txQuote' = [txQuote EXCEPT ![p] = {}]
                   /\ UNCHANGED txTags
              ELSE IF \E i \in 1..Len(tagList) : ~TagExists(ParseTag(tagList[i]).val)
              THEN /\ Returns(p, RaiseResult("Postgrex.Error"))
                   /\ txQuote' = [txQuote EXCEPT ![p] = {}]
                   /\ UNCHANGED txTags
              ELSE /\ txTags' = [txTags EXCEPT ![p] = QuoteTagRows(tagList, id, now)]
                   /\ pc' = [pc EXCEPT ![p] = "commit"]
                   /\ UNCHANGED <<result, response, txQuote>>
    /\ UNCHANGED <<tables, nextId, input, requestOf, txId, read>>

\* Variant: the count returned is the number of distinct tags of the call.
CommitCountsDistinct(p) ==
    /\ pc[p] = "commit"
    /\ quotes' = quotes \cup txQuote[p]
    /\ quote_tags' = quote_tags (+) SeqToBag(txTags[p])
    /\ LET id == (CHOOSE q \in txQuote[p] : TRUE).id
       IN  /\ Returns(p, OkResult(id, Cardinality({txTags[p][i] : i \in 1..Len(txTags[p])})))
           /\ requestOf' = [i \in DOMAIN requestOf \cup {id} |->
                               IF i = id THEN input[p].tags ELSE requestOf[i]]
    /\ txQuote' = [txQuote EXCEPT ![p] = {}]
    /\ txTags' = [txTags EXCEPT ![p] = <<>>]
    /\ UNCHANGED <<sources, source_types, tags, nextId, clock, input, txId, read>>

\* Variant: the association rows are stored and the quote row is not.
CommitWithoutQuote(p) ==
    /\ pc[p] = "commit"
    /\ quote_tags' = quote_tags (+) SeqToBag(txTags[p])
    /\ LET id == (CHOOSE q \in txQuote[p] : TRUE).id
       IN  /\ Returns(p, OkResult(id, Len(txTags[p])))
           /\ requestOf' = [i \in DOMAIN requestOf \cup {id} |->
                               IF i = id THEN input[p].tags ELSE requestOf[i]]
    /\ txQuote' = [txQuote EXCEPT ![p] = {}]
    /\ txTags' = [txTags EXCEPT ![p] = <<>>]
    /\ UNCHANGED <<quotes, sources, source_types, tags, nextId, clock, input, txId, read>>

\* Variant: the association rows of the call replace the rows of the table.
CommitReplacesTags(p) ==
    /\ pc[p] = "commit"
    /\ quotes' = quotes \cup txQuote[p]
    /\ quote_tags' = SeqToBag(txTags[p])
    /\ LET id == (CHOOSE q \in txQuote[p] : TRUE).id
       IN  /\ Returns(p, OkResult(id, Len(txTags[p])))
           /\ requestOf' = [i \in DOMAIN requestOf \cup {id} |->
                               IF i = id THEN input[p].tags ELSE requestOf[i]]
    /\ txQuote' = [txQuote EXCEPT ![p] = {}]
    /\ txTags' = [txTags EXCEPT ![p] = <<>>]
    /\ UNCHANGED <<sources, source_types, tags, nextId, clock, input, txId, read>>

\* The transaction commits: the staged rows reach the tables together and
\* create_with_tags returns {:ok, %{quote: quote, quote_tags: {count, nil}}}.
Commit(p) ==
    /\ pc[p] = "commit"
    /\ quotes' = quotes \cup txQuote[p]
    /\ quote_tags' = quote_tags (+) SeqToBag(txTags[p])
    /\ LET id == (CHOOSE q \in txQuote[p] : TRUE).id
       IN  /\ Returns(p, OkResult(id, Len(txTags[p])))
           /\ requestOf' = [i \in DOMAIN requestOf \cup {id} |->
                               IF i = id THEN input[p].tags ELSE requestOf[i]]
    /\ txQuote' = [txQuote EXCEPT ![p] = {}]
    /\ txTags' = [txTags EXCEPT ![p] = <<>>]
    /\ UNCHANGED <<sources, source_types, tags, nextId, clock, input, txId, read>>

\* The caller has its reply: the request is over.
Reply(p) ==
    /\ pc[p] = "replied"
    /\ pc' = [pc EXCEPT ![p] = "idle"]
    /\ input' = [input EXCEPT ![p] = NoInput]
    /\ result' = [result EXCEPT ![p] = NoResult]
    /\ response' = [response EXCEPT ![p] = NoResult]
    /\ txId' = [txId EXCEPT ![p] = 0]
    /\ UNCHANGED <<tables, nextId, clock, txQuote, txTags, requestOf, read>>

\* ---------------------------------------------------- full_text_search ----
Lower(c) == IF c = "A" THEN "a" ELSE IF c = "B" THEN "b" ELSE IF c = "J" THEN "j" ELSE c

\* value ilike pattern: % matches any run of characters, _ any one character,
\* any other character itself without regard to case; NULL matches nothing.
RECURSIVE LikeMatch(_, _)
LikeMatch(s, pat) ==
    IF Len(pat) = 0 THEN Len(s) = 0
    ELSE IF Head(pat) = "%"
         THEN LikeMatch(s, Tail(pat)) \/ (Len(s) > 0 /\ LikeMatch(Tail(s), pat))
    ELSE IF Len(s) = 0 THEN FALSE
    ELSE IF Head(pat) = "_" THEN LikeMatch(Tail(s), Tail(pat))
    ELSE Lower(Head(s)) = Lower(Head(pat)) /\ LikeMatch(Tail(s), Tail(pat))

ILike(value, pat) == value # Null /\ LikeMatch(value, pat)

\* params = ["%#{text}%"]
SearchPattern(text) == <<"%">> \o text \o <<"%">>

\* The table -> columns map the sub-queries are built from.
SearchColumns ==
    [quotes |-> {"text", "volume", "issue", "extras"},
     sources |-> {"author", "topic", "publication", "url"},
     tags |-> {"text"},
     source_types |-> {"name"}]

TableRows(table) ==
    IF table = "quotes" THEN quotes
    ELSE IF table = "sources" THEN sources
    ELSE IF table = "tags" THEN tags
    ELSE source_types

\* select id, <column> as text, '<table>' as source from <table>
\* where <column> ilike $1
SubQuery(table, column, pat) ==
    {[id |-> r.id, text |-> r[column], source |-> table] :
        r \in {x \in TableRows(table) : ILike(x[column], pat)}}

\* Variant: the rows are not grouped by source; all are put under quotes.
FullTextSearchResultUngrouped(text) ==
    LET pairs == UNION {{<<t, c>> : c \in SearchColumns[t]} : t \in DOMAIN SearchColumns}
        rows == UNION {SubQuery(tc[1], tc[2], SearchPattern(text)) : tc \in pairs}
    IN  IF rows = {} THEN {} ELSE {[bucket |-> "quotes", rows |-> rows, n |-> Cardinality(rows)]}

\* The (table, column) pairs, one sub-query each.
SearchPairs == UNION {{<<t, c>> : c \in SearchColumns[t]} : t \in DOMAIN SearchColumns}

\* Variant: the sub-queries are joined by "union all"; a row is in the result
\* once per sub-query that selects it.
UnionAllOfSubQueries(text) ==
    LET rows == UNION {SubQuery(tc[1], tc[2], SearchPattern(text)) : tc \in SearchPairs}
    IN  [r \in rows |->
            Cardinality({tc \in SearchPairs : r \in SubQuery(tc[1], tc[2], SearchPattern(text))})]

\* The sub-queries joined by " union ": the bag of the result rows, in which
\* the rows that several sub-queries select are once.
UnionOfSubQueries(text) ==
    LET rows == UNION {SubQuery(tc[1], tc[2], SearchPattern(text)) : tc \in SearchPairs}
    IN  [r \in rows |-> 1]

\* The rows of the query mapped to atom keys and grouped by source: a bucket
\* per source that has a row, with its rows and the length n of its list.
FullTextSearchResult(text) ==
    LET res == UnionOfSubQueries(text)
        rows == DOMAIN res
    IN  {[bucket |-> src, rows |-> {r \in rows : r.source = src},
          n |-> BagCardinality([r \in {x \in rows : x.source = src} |-> res[r]])] :
            src \in {r.source : r \in rows}}

\* The map literal full_text_search ends with (each text by its first words).
HardCodedResult ==
    {[bucket |-> "quotes",
      rows |-> {[id |-> 13, source |-> "quotes",
                 text |-> <<"The most frequently used gasification reactors ...">>],
                [id |-> 17, source |-> "quotes",
                 text |-> <<"All products pass through a high temperature reaction ...">>],
                [id |-> 20, source |-> "quotes",
                 text |-> <<"The product gas of fluidised bed reactors ...">>],
                [id |-> 16, source |-> "quotes",
                 text |-> <<"In the downdraft (co-current) configuration, ...">>]}],
     [bucket |-> "tags",
      rows |-> {[id |-> 19, source |-> "tags", text |-> <<"Disadvantage of downdraft gasifier">>],
                [id |-> 18, source |-> "tags", text |-> <<"Advantage of downdraft gasifier">>],
                [id |-> 17, source |-> "tags", text |-> <<"Description downdraft gasifier">>]}]}

\* Variant: a search after a search reuses the query result of the earlier one.
FullTextSearchMemo(text) ==
    /\ read' = [op |-> "search", text |-> text, filter |-> NilFilter, rows |-> {},
                buckets |-> HardCodedResult,
                logged |-> IF read.op = "search" THEN read.logged
                           ELSE FullTextSearchResult(text)]
    /\ UNCHANGED <<tables, nextId, clock, pc, input, txQuote, txTags, result, response,
                   requestOf, txId>>

\* full_text_search(text): the union query runs and its grouped rows are
\* logged; the function value is the map literal.
FullTextSearch(text) ==
    /\ read' = [op |-> "search", text |-> text, filter |-> NilFilter, rows |-> {},
                buckets |-> HardCodedResult, logged |-> FullTextSearchResult(text)]
    /\ UNCHANGED <<tables, nextId, clock, pc, input, txQuote, txTags, result, response,
                   requestOf, txId>>

Search == \E text \in SearchTexts : FullTextSearch(text)

\* -------------------------------------------------------- get_quotes_by ----
\* Variant: the source of the filter is not used; every quote is returned.
GetQuotesByRowsAll(filter) == quotes

\* get_quotes_by(nil) and get_quotes_by(inputs): all quotes, or an inner join
\* with the source of the given id when the map has a source.
GetQuotesByRows(filter) ==
    IF filter.nil \/ filter.source = NoSource THEN quotes
    ELSE {q \in quotes : \E s \in sources : s.id = q.source_id /\ s.id = filter.source}

GetQuotesBy(filter) ==
    /\ read' = [op |-> "quotes", text |-> <<>>, filter |-> filter,
                rows |-> GetQuotesByRows(filter), buckets |-> {}, logged |-> {}]
    /\ UNCHANGED <<tables, nextId, clock, pc, input, txQuote, txTags, result, response,
                   requestOf, txId>>

Quotes == \E filter \in Filters : GetQuotesBy(filter)

Next ==
    \/ (\E p \in Writers : CreateWithTags(p)) /\ UNCHANGED cvars
    \/ (\E p \in Writers : MergeQuoteTags(p)) /\ UNCHANGED cvars
    \/ (\E p \in Writers : Commit(p)) /\ UNCHANGED cvars
    \/ (\E p \in Writers : Reply(p)) /\ UNCHANGED cvars
    \/ Search /\ UNCHANGED cvars
    \/ Quotes /\ UNCHANGED cvars

Spec == Init /\ [][Next]_vars

\* ------------------------------------------------------------ NewQuote ----
\* The source ids a route can carry (Undefined: the route without a source).
RouteSourceIds == {Undefined, "1", "2"}

\* The values the user can give to each field of the form.
FieldValues ==
    [tags |-> {<<>>, <<"1">>}, source |-> {"", "1"}, quote |-> {"", "q"},
     page |-> {"", "10-12"}, volumeIssue |-> {"", "3/4"},
     date |-> {"", "3 Feb 2018", "Feb 2018", "31 Feb 2018"}, extras |-> {"", "e"}]

\* The fields the user changes where submit is followed: the tags come from
\* the bottom menu, the date stays empty.
SubmitFieldValues ==
    [source |-> {"", "1"}, quote |-> {"", "q"}, page |-> {"", "10-12"},
     volumeIssue |-> {"", "3/4"}, extras |-> {"", "e"}]

\* The tags that can be created from the bottom menu.
NewTags == {"2"}

\* The keys of a DateType value as <<year, month, day>>.
DateParts ==
    [d \in FieldValues.date \ {""} |->
        IF d = "3 Feb 2018" THEN <<2018, 2, 3>>
        ELSE IF d = "Feb 2018" THEN <<2018, 2>>
        ELSE <<2018, 2, 31>>]

\* The start and end of a PageType value, the volume and issue of a
\* VolumeIssueType value.
PageParts == [p \in {"10-12"} |-> [start |-> "10", end |-> "12"]]

VolumeIssueParts == [v \in {"3/4"} |-> [volume |-> "3", issue |-> "4"]]

DigitStrings == <<"0", "1", "2", "3", "4", "5", "6", "7", "8", "9">>

\* n in two digits.
Pad2(n) == DigitStrings[((n \div 10) % 10) + 1] \o DigitStrings[(n % 10) + 1]

\* moment({year, month: month - 1, day}).isValid()
DaysInMonth(year, month) ==
    IF month = 2 THEN (IF year % 4 = 0 /\ (year % 100 # 0 \/ year % 400 = 0) THEN 29 ELSE 28)
    ELSE IF month \in {4, 6, 9, 11} THEN 30 ELSE 31

MomentIsValid(year, month, day) ==
    month \in 1..12 /\ day \in 1..DaysInMonth(year, month)

\* datec.format("YYYY-MM-DD")
MomentFormat(year, month, day) ==
    Pad2(year \div 100) \o Pad2(year % 100) \o "-" \o Pad2(month) \o "-" \o Pad2(day)

\* What a field validator gives: its error ("" for none), formOutputs after
\* it, and whether it called setState.
validateTags(tagIds, out) ==
    IF Len(tagIds) = 0
    THEN [error |-> "Select at least one tag", out |-> out, set |-> FALSE]
    ELSE [error |-> "", out |-> [out EXCEPT !.tags = tagIds], set |-> TRUE]

validateSource(source, out) ==
    IF Falsy(source)
    THEN [error |-> "Select a source", out |-> out, set |-> FALSE]
    ELSE [error |-> "", out |-> [out EXCEPT !.sourceId = source], set |-> TRUE]

validateQuote(quote, out) ==
    IF Falsy(quote)
    THEN [error |-> "Enter a quote", out |-> out, set |-> FALSE]
    ELSE [error |-> "", out |-> [out EXCEPT !.text = quote], set |-> TRUE]

validatePage(page, out) ==
    IF Falsy(page)
    THEN [error |-> "", out |-> out, set |-> FALSE]
    ELSE [error |-> "",
          out |-> [out EXCEPT !.pageStart = PageParts[page].start,
                              !.pageEnd = PageParts[page].end],
          set |-> TRUE]

validateVolumeIssue(volumeIssue, out) ==
    IF Falsy(volumeIssue)
    THEN [error |-> "", out |-> out, set |-> FALSE]
    ELSE [error |-> "",
          out |-> [out EXCEPT !.volume = VolumeIssueParts[volumeIssue].volume,
                              !.issue = VolumeIssueParts[volumeIssue].issue],
          set |-> TRUE]

validateDate(date, out) ==
    IF Falsy(date)
    THEN [error |-> "", out |-> [out EXCEPT !.date = Undefined], set |-> TRUE]
    ELSE LET keys == DateParts[date]
         IN  IF Len(keys) # 3 \/ keys[1] = 0 \/ keys[2] = 0 \/ keys[3] = 0
             THEN [error |-> "Enter a valid date", out |-> out, set |-> FALSE]
             ELSE LET isValid == MomentIsValid(keys[1], keys[2], keys[3])
                  IN  [error |-> IF isValid THEN "" ELSE "Enter a valid date",
                       out |-> [out EXCEPT !.date =
                                   IF isValid THEN MomentFormat(keys[1], keys[2], keys[3])
                                   ELSE Undefined],
                       set |-> TRUE]

validateExtras(extras, out) ==
    IF Falsy(extras)
    THEN [error |-> "", out |-> out, set |-> FALSE]
    ELSE [error |-> "", out |-> [out EXCEPT !.extras = extras], set |-> TRUE]

\* this[`validate${Key}`](values[key])
ValidateField(key, v, out) ==
    CASE key = "tags" -> validateTags(v, out)
      [] key = "source" -> validateSource(v, out)
      [] key = "quote" -> validateQuote(v, out)
      [] key = "page" -> validatePage(v, out)
      [] key = "volumeIssue" -> validateVolumeIssue(v, out)
      [] key = "date" -> validateDate(v, out)
      [] key = "extras" -> validateExtras(v, out)

\* Variant: the loop goes on after an error and gathers the errors of all fields.
RECURSIVE ValidateFromAll(_, _, _)
ValidateFromAll(i, values, out) ==
    IF i > Len(FormKeys)
    THEN [errors |-> {}, out |-> out, ran |-> {}, set |-> FALSE]
    ELSE LET key == FormKeys[i]
             r == ValidateField(key, values[key], out)
             rest == ValidateFromAll(i + 1, values, r.out)
         IN  [errors |-> (IF r.error # "" THEN {[key |-> key, error |-> r.error]} ELSE {})
                            \cup rest.errors,
              out |-> rest.out, ran |-> {key} \cup rest.ran, set |-> r.set \/ rest.set]

\* The loop of validate from the i-th key on: the errors, formOutputs after
\* it, the keys whose validator ran and whether setState was called.
RECURSIVE ValidateFrom(_, _, _)
ValidateFrom(i, values, out) ==
    IF i > Len(FormKeys)
    THEN [errors |-> {}, out |-> out, ran |-> {}, set |-> FALSE]
    ELSE LET key == FormKeys[i]
             r == ValidateField(key, values[key], out)
         IN  IF r.error # ""
             THEN [errors |-> {[key |-> key, error |-> r.error]}, out |-> r.out,
                   ran |-> {key}, set |-> r.set]
             ELSE LET rest == ValidateFrom(i + 1, values, r.out)
                  IN  [errors |-> rest.errors, out |-> rest.out, ran |-> {key} \cup rest.ran,
                       set |-> r.set \/ rest.set]

validate(values, out) == ValidateFrom(1, values, out)

getDerivedStateFromProps(nextProps, currentState) ==
    IF nextProps # currentState.sourceId
    THEN [currentState EXCEPT !.sourceId = nextProps, !.queryResult = NoQueryResult]
    ELSE currentState

\* fetchSource in state s: the query for s.sourceId (all sources if it is
\* undefined) is sent; pending are the queries in flight before it.
fetchSource(s, pending) ==
    /\ inflight' = pending \cup {s.sourceId}
    /\ fetchCalls' = (fetchCalls + 1) % FetchCallsModulus

componentDidUpdate(s, pending) ==
    IF ~s.queryResult.defined THEN fetchSource(s, pending)
    ELSE inflight' = pending /\ UNCHANGED fetchCalls

\* A setState to s under the props nextProps: getDerivedStateFromProps, the
\* render, componentDidUpdate.
Update(nextProps, s, pending) ==
    LET derived == getDerivedStateFromProps(nextProps, s)
    IN  state' = derived /\ componentDidUpdate(derived, pending)

\* Formik with enableReinitialize: changed initialValues reset the form.
Reinitialize(f, initialValues) ==
    IF initialValues # f.initialValues THEN FormikState(initialValues) ELSE f

\* The result of SOURCE_QUERY for source id (data.source), or of
\* SOURCES_QUERY, which has no data.source.
QueryResult(sid) == [defined |-> TRUE, variables |-> sid, source |-> sid]

ComponentDidMount ==
    /\ ~mounted
    /\ mounted' = TRUE
    /\ LET derived == getDerivedStateFromProps(props, state)
       IN  state' = derived /\ fetchSource(derived, inflight)
    /\ UNCHANGED <<props, form, mutation>>

\* The router renders the component with another sourceId.
RouteChange(sid) ==
    /\ mounted
    /\ sid # props
    /\ props' = sid
    /\ Update(sid, state, inflight)
    /\ UNCHANGED <<form, mutation, mounted>>

\* The query that fetchSource sent for sid resolves.
FetchResolves(sid) ==
    /\ sid \in inflight
    /\ LET queryResult == QueryResult(sid)
           s == [state EXCEPT !.queryResult = queryResult,
                              !.initialFormValues.source = queryResult.source]
       IN  /\ Update(props, s, inflight \ {sid})
           /\ form' = Reinitialize(form, s.initialFormValues)
    /\ UNCHANGED <<props, mutation, mounted>>

\* The query that fetchSource sent for sid rejects.
FetchRejects(sid) ==
    /\ sid \in inflight
    /\ Update(props, [state EXCEPT !.graphqlError = "Network error"], inflight \ {sid})
    /\ UNCHANGED <<props, form, mutation, mounted>>

Settle == \E sid \in RouteSourceIds : FetchResolves(sid) \/ FetchRejects(sid)

\* The user changes a field: Formik sets the value and runs validate.
SetFieldValue(key, v) ==
    /\ mounted
    /\ ~form.isSubmitting
    /\ key = "source" => Falsy(state.sourceId)
    /\ v # form.values[key]
    /\ LET values == [form.values EXCEPT ![key] = v]
           r == validate(values, state.formOutputs)
           s == [state EXCEPT !.formOutputs = r.out,
                              !.selectedTags = IF key = "tags" THEN v ELSE @]
       IN  /\ form' = [form EXCEPT !.values = values, !.errors = r.errors, !.ran = r.ran]
           /\ IF r.set \/ key = "tags" THEN Update(props, s, inflight)
              ELSE UNCHANGED <<state, inflight, fetchCalls>>
    /\ UNCHANGED <<props, mutation, mounted>>

\* The user presses Ok: Formik runs validate and, without errors, calls
\* submit, which calls createQuote with the variables of the last render.
HandleSubmit ==
    /\ mounted
    /\ ~form.isSubmitting
    /\ ~mutation.pending
    /\ form.values # form.initialValues
    /\ form.errors = {}
    /\ LET r == validate(form.values, state.formOutputs)
           s == [state EXCEPT !.formOutputs = r.out]
       IN  /\ IF r.errors = {}
              THEN /\ form' = [form EXCEPT !.ran = r.ran, !.isSubmitting = TRUE]
                   /\ mutation' = [pending |-> TRUE, variables |-> r.out,
                                   values |-> form.values, outcome |-> "none"]
              ELSE /\ form' = [form EXCEPT !.errors = r.errors, !.ran = r.ran]
                   /\ UNCHANGED mutation
           /\ IF r.set THEN Update(props, s, inflight)
              ELSE UNCHANGED <<state, inflight, fetchCalls>>
    /\ UNCHANGED <<props, mounted>>

\* Variant: the form is reset after a failed call too.
CreateQuoteRejectsAndResets ==
    /\ mutation.pending
    /\ form' = FormikState(form.initialValues)
    /\ Update(props, [state EXCEPT !.graphqlError = "GraphQL error"], inflight)
    /\ mutation' = [NoMutation EXCEPT !.outcome = "rejected"]
    /\ UNCHANGED <<props, mounted>>

\* createQuote resolves: submit resets the form and sets the state.
CreateQuoteResolves ==
    /\ mutation.pending
    /\ LET values == mutation.values
           s == [state EXCEPT !.submittedSourceId =
                                  IF Falsy(values.source) THEN Undefined ELSE values.source,
                              !.initialFormValues.tags = <<>>]
       IN  /\ form' = Reinitialize(FormikState(form.initialValues), s.initialFormValues)
           /\ Update(props, s, inflight)
    /\ mutation' = [NoMutation EXCEPT !.outcome = "resolved"]
    /\ UNCHANGED <<props, mounted>>

\* createQuote rejects: submit ends the submitting and keeps the error.
CreateQuoteRejects ==
    /\ mutation.pending
    /\ form' = [form EXCEPT !.isSubmitting = FALSE]
    /\ Update(props, [state EXCEPT !.graphqlError = "GraphQL error"], inflight)
    /\ mutation' = [NoMutation EXCEPT !.outcome = "rejected"]
    /\ UNCHANGED <<props, mounted>>

\* A tag was created from the bottom menu.
OnTagCreated(tag) ==
    /\ mounted
    /\ LET s == [state EXCEPT !.initialFormValues.tags = Append(state.selectedTags, tag)]
       IN  /\ form' = Reinitialize(form, s.initialFormValues)
           /\ Update(props, s, inflight)
    /\ UNCHANGED <<props, mutation, mounted>>

DismissErrorModal ==
    /\ state.graphqlError # Undefined
    /\ Update(props, [state EXCEPT !.graphqlError = Undefined], inflight)
    /\ UNCHANGED <<props, form, mutation, mounted>>

\* The success modal is dismissed with val; to use the source again the
\* route of the submitted source is pushed.
OnSuccessModalDismissed(val) ==
    /\ state.submittedSourceId # Undefined
    /\ LET push == /\ Falsy(state.sourceId)
                   /\ ~Falsy(state.submittedSourceId)
                   /\ val = "RE_USE_SOURCE"
           nextProps == IF push THEN state.submittedSourceId ELSE props
       IN  /\ props' = nextProps
           /\ Update(nextProps, [state EXCEPT !.submittedSourceId = Undefined], inflight)
    /\ UNCHANGED <<form, mutation, mounted>>

\* The component is constructed on some route.
NewQuoteInit == StoreInit /\ \E sid \in RouteSourceIds : Constructed(sid)

\* Source fetching: the mount, the route, the responses, the error modal.
FetchNext ==
    \/ ComponentDidMount /\ UNCHANGED svars
    \/ (\E sid \in RouteSourceIds : RouteChange(sid)) /\ UNCHANGED svars
    \/ Settle /\ UNCHANGED svars
    \/ DismissErrorModal /\ UNCHANGED svars

\* Every query that was sent settles.
FetchSpec == NewQuoteInit /\ [][FetchNext]_vars /\ WF_vars(Settle /\ UNCHANGED svars)

\* Validation: the component is mounted, the source is fetched and the user
\* changes the fields.
ValidateNext ==
    \/ ComponentDidMount /\ UNCHANGED svars
    \/ (\E sid \in RouteSourceIds : FetchResolves(sid)) /\ UNCHANGED svars
    \/ (\E key \in DOMAIN FieldValues : \E v \in FieldValues[key] : SetFieldValue(key, v))
           /\ UNCHANGED svars

ValidateSpec == NewQuoteInit /\ [][ValidateNext]_vars

\* Submit: the source is fetched, the user changes fields, creates tags,
\* submits and dismisses the modals.
SubmitNext ==
    \/ ComponentDidMount /\ UNCHANGED svars
    \/ Settle /\ UNCHANGED svars
    \/ (\E key \in DOMAIN SubmitFieldValues : \E v \in SubmitFieldValues[key] :
            SetFieldValue(key, v)) /\ UNCHANGED svars
    \/ HandleSubmit /\ UNCHANGED svars
    \/ CreateQuoteResolves /\ UNCHANGED svars
    \/ CreateQuoteRejects /\ UNCHANGED svars
    \/ (\E tag \in NewTags : OnTagCreated(tag)) /\ UNCHANGED svars
    \/ DismissErrorModal /\ UNCHANGED svars
    \/ (\E val \in {"RE_USE_SOURCE", "DONT_RE_USE_SOURCE"} : OnSuccessModalDismissed(val))
           /\ UNCHANGED svars

SubmitSpec == NewQuoteInit /\ [][SubmitNext]_vars

\* ------------------------------------------------------------ claims ----
\* The association rows of quote id.
RowsOfQuote(id) == {r \in BagToSet(quote_tags) : r.quote_id = id}

\* The number of association rows of quote id.
AssocCount(id) ==
    BagCardinality([r \in RowsOfQuote(id) |-> quote_tags[r]])

\* The tag ids that the creation request of quote id declares.
DeclaredTagIds(id) == {ParseTag(requestOf[id][k]).val : k \in 1..Len(requestOf[id])}

\* Quote id has an association row for every tag its request declares.
HasAllDeclaredTags(id) ==
    /\ id \in DOMAIN requestOf
    /\ \A k \in 1..Len(requestOf[id]) :
          /\ ParseTag(requestOf[id][k]).ok
          /\ \E r \in RowsOfQuote(id) : r.tag_id = ParseTag(requestOf[id][k]).val

TagsValid(i) ==
    \A k \in 1..Len(i.tags) : ParseTag(i.tags[k]).ok /\ TagExists(ParseTag(i.tags[k]).val)

ValidInput(i) == i.text # <<>> /\ SourceExists(i.source_id) /\ TagsValid(i)

HasMissingTag(i) ==
    \E k \in 1..Len(i.tags) : ParseTag(i.tags[k]).ok /\ ~TagExists(ParseTag(i.tags[k]).val)

HasUnparseableTag(i) == \E k \in 1..Len(i.tags) : ~ParseTag(i.tags[k]).ok

\* No row that the current call of writer p inserted is in storage, and its
\* transaction is closed.
NoRowsOf(p) ==
    /\ txQuote[p] = {}
    /\ txTags[p] = <<>>
    /\ \A q \in quotes : q.id # txId[p]
    /\ \A r \in BagToSet(quote_tags) : r.quote_id # txId[p]

\* C1: in every committed storage state, after any sequence of successful and
\* failing create_with_tags calls, every quote row has an association row for
\* every tag id its creation request declares.
C1_QuoteHasAllDeclaredTags == \A q \in quotes : HasAllDeclaredTags(q.id)

\* A quote with two distinct declared tags is stored while another call has
\* failed after drawing a quote id.
C1_Witness ==
    /\ \E q \in quotes : q.id \in DOMAIN requestOf /\ Cardinality(DeclaredTagIds(q.id)) = 2
    /\ \E p \in Writers : pc[p] = "replied" /\ result[p].kind = "raise" /\ txId[p] # 0

\* C2: a call with a text, an existing source and existing tags succeeds and
\* adds exactly one quote row and exactly len(tags) association rows, each
\* linking the new quote to one of the given tags.
C2_ValidInputPersists ==
    \A p \in Writers :
        (pc[p] = "replied" /\ ValidInput(input[p])) =>
            /\ result[p].kind = "ok"
            /\ result[p].quote = txId[p]
            /\ {q \in quotes : q.id = txId[p]} = {QuoteRow(txId[p], input[p])}
            /\ AssocCount(txId[p]) = Len(input[p].tags)
            /\ \A r \in RowsOfQuote(txId[p]) :
                  \E k \in 1..Len(input[p].tags) : r.tag_id = ParseTag(input[p].tags[k]).val
            /\ \A k \in 1..Len(input[p].tags) :
                  \E r \in RowsOfQuote(txId[p]) : r.tag_id = ParseTag(input[p].tags[k]).val

\* A call with two valid tags has returned.
C2_Witness ==
    \E p \in Writers :
        /\ pc[p] = "replied"
        /\ ValidInput(input[p])
        /\ Len(input[p].tags) = 2
        /\ result[p].kind = "ok"

\* C3: if a tag id of the input references no existing tag, the call is no
\* success and no quote row and no association row of it is in the tables.
C3_MissingTagLeavesNoRows ==
    \A p \in Writers :
        (pc[p] = "replied" /\ HasMissingTag(input[p])) =>
            /\ result[p].kind # "ok"
            /\ NoRowsOf(p)

\* A call whose quote was inserted and whose second tag does not exist has
\* returned.
C3_Witness ==
    \E p \in Writers :
        /\ pc[p] = "replied"
        /\ txId[p] # 0
        /\ Len(input[p].tags) = 2
        /\ ~HasUnparseableTag(input[p])
        /\ HasMissingTag(input[p])
        /\ TagExists(ParseTag(input[p].tags[1]).val)

\* C4: if an element of tags is no integer, the transaction is aborted: the
\* quote row inserted in it and every association row are absent.
C4_UnparseableTagAborts ==
    \A p \in Writers :
        (pc[p] = "replied" /\ HasUnparseableTag(input[p])) =>
            /\ result[p].kind # "ok"
            /\ NoRowsOf(p)

\* A call whose quote was inserted and whose tags are an existing tag and
\* then an element that is no integer has returned.
C4_Witness ==
    \E p \in Writers :
        /\ pc[p] = "replied"
        /\ txId[p] # 0
        /\ Len(input[p].tags) = 2
        /\ ParseTag(input[p].tags[1]).ok
        /\ TagExists(ParseTag(input[p].tags[1]).val)
        /\ ~ParseTag(input[p].tags[2]).ok

\* C5: a call with an empty text, an existing source and existing tags fails
\* at the step quote with an error on the field text, and no quote row and no
\* association row of it persists.
C5_EmptyTextFails ==
    /\ \A q \in quotes : q.text # <<>>
    /\ \A p \in Writers :
          (/\ pc[p] = "replied"
           /\ input[p].text = <<>>
           /\ SourceExists(input[p].source_id)
           /\ TagsValid(input[p])) =>
              /\ result[p] = ErrorResult("quote", {"text"}, {})
              /\ txId[p] = 0
              /\ NoRowsOf(p)

\* A call with an empty text, an existing source and one existing tag has
\* returned.
C5_Witness ==
    \E p \in Writers :
        /\ pc[p] = "replied"
        /\ input[p].text = <<>>
        /\ SourceExists(input[p].source_id)
        /\ Len(input[p].tags) = 1
        /\ TagsValid(input[p])

\* C6: whenever a step fails, the returned failure names the failing step:
\* "quote" with no prior successful step, or "quote_tags" with the prior
\* successful step "quote"; no side effect persists.
C6_FailureNamesStep ==
    \A p \in Writers :
        (pc[p] = "replied" /\ result[p].kind # "ok") =>
            /\ result[p].kind = "error"
            /\ \/ result[p].step = "quote" /\ result[p].succ = {}
               \/ result[p].step = "quote_tags" /\ result[p].succ = {"quote"}
            /\ NoRowsOf(p)

\* C7: every call ends by returning a success or a typed failure; none ends
\* in an uncaught exception.
C7_NoUncaughtException ==
    \A p \in Writers :
        pc[p] = "replied" => result[p].kind \in {"ok", "error"} /\ response[p].kind \in {"ok", "error"}

\* C8: under every interleaving of the writers and the readers, the quotes a
\* reader got and the quotes in the tables have all their associations, and
\* the rows of every committed call stay through the aborts of other calls.
C8_IsolatedAndDurable ==
    /\ \A q \in quotes \cup read.rows : HasAllDeclaredTags(q.id)
    /\ read.rows \subseteq quotes
    /\ \A id \in DOMAIN requestOf :
          /\ \E q \in quotes : q.id = id
          /\ AssocCount(id) = Len(requestOf[id])

\* Two transactions overlapped and a reader got the committed one: writer p
\* inserted its quote first, the other writer inserted a later quote and ran
\* its merge step first (its rows carry the first clock value), committed and
\* was read, and p has aborted.
C8_Witness ==
    \E p \in Writers :
        /\ pc[p] = "replied" /\ result[p].kind = "raise"
        /\ \E q \in read.rows :
              /\ q.id > txId[p]
              /\ \E r \in RowsOfQuote(q.id) : r.inserted_at = 1

\* C9: the result of search has all four buckets quotes, sources, tags and
\* source types, each a (possibly empty) collection of rows.
C9_AllFourBuckets ==
    read.op = "search" => {b.bucket : b \in read.buckets} = DOMAIN SearchColumns

\* C10: when no configured column of any row contains the text, search
\* returns all four buckets empty.
C10_NoMatchAllEmpty ==
    (read.op = "search" /\ FullTextSearchResult(read.text) = {}) =>
        /\ {b.bucket : b \in read.buckets} = DOMAIN SearchColumns
        /\ \A b \in read.buckets : b.rows = {}

\* The rows that search returned, of all buckets.
ReturnedRows == UNION {b.rows : b \in read.buckets}

\* The rows of the query result that search logged, of all buckets.
LoggedRows == UNION {b.rows : b \in read.logged}

\* C11: for every row of a searched table with a configured column that
\* matches the text, the bucket of that table holds a row with the id of that
\* row and the source of that table.
C11_SearchComplete ==
    read.op = "search" =>
        \A r \in LoggedRows :
            \E b \in read.buckets :
                b.bucket = r.source /\ \E x \in b.rows : x.id = r.id /\ x.source = r.source

\* C12: every row that search returns is a row of the query over storage: a
\* row of its table with a configured column that holds the returned text and
\* matches the search text.
C12_SearchSound == read.op = "search" => ReturnedRows \subseteq LoggedRows

\* C13: in every result of search each row lies in the bucket of its own
\* source.
C13_RowInBucketOfSource ==
    \A b \in read.buckets \cup read.logged : \A x \in b.rows : x.source = b.bucket

\* A search was answered while the query matched rows of three tables.
C13_Witness ==
    /\ read.op = "search"
    /\ Cardinality(read.buckets) = 2
    /\ {b.bucket : b \in read.logged} = {"quotes", "sources", "tags"}

\* C14: every row that search returns has the four fields tid, text, source
\* and column.
C14_RowHasFourFields ==
    read.op = "search" => \A x \in ReturnedRows : DOMAIN x = {"tid", "text", "source", "column"}

\* The quotes that get_quotes_by is to return for a filter.
ExpectedQuotes(filter) ==
    IF filter.nil \/ filter.source = NoSource THEN quotes
    ELSE {q \in quotes : q.source_id = filter.source}

\* C15: get_quotes_by with nil or a filter without source returns every quote
\* in storage, and with a source S exactly the quotes whose source_id is S.
C15_GetQuotesByFilter ==
    [][(read' # read /\ read'.op = "quotes") => read'.rows = ExpectedQuotes(read'.filter)]_vars

\* A source without quotes was asked for while quotes of another source are
\* stored.
C15_Witness ==
    /\ read.op = "quotes"
    /\ read.filter = MapFilter(2)
    /\ read.rows = {}
    /\ quotes # {}

\* C16 as stated: a source_id that references no source makes the call fail at
\* the step quote with an error on the field source, whatever the text.
C16_MissingSourceNamesSource ==
    \A p \in Writers :
        (pc[p] = "replied" /\ ~SourceExists(input[p].source_id)) =>
            result[p] = ErrorResult("quote", {"source"}, {})

\* C16: with a text, a source_id that references no source makes the call fail
\* at the step quote with an error on the field source; the association step
\* has not run and no row of the call is inserted.
C16_MissingSourceFailsAtQuote ==
    \A p \in Writers :
        (pc[p] = "replied" /\ input[p].text # <<>> /\ ~SourceExists(input[p].source_id)) =>
            /\ result[p] = ErrorResult("quote", {"source"}, {})
            /\ response[p] = ErrorResult("quote", {"source"}, {})
            /\ NoRowsOf(p)

\* A call with a text, a missing source and two existing tags has returned.
C16_Witness ==
    \E p \in Writers :
        /\ pc[p] = "replied"
        /\ input[p].text # <<>>
        /\ ~SourceExists(input[p].source_id)
        /\ Len(input[p].tags) = 2
        /\ TagsValid(input[p])

\* C17: a search or a get_quotes_by, also between the steps of writers, leaves
\* the five tables unchanged, and the query result of a search is the one of
\* the storage at that moment.
C17_ReadsAreReadOnly ==
    [][(read' # read) =>
          /\ UNCHANGED <<quotes, quote_tags, sources, source_types, tags>>
          /\ read'.op = "search" => read'.logged = FullTextSearchResult(read'.text)]_vars

\* A search ran after an earlier read while a writer is about to commit and a
\* quote is stored.
C17_Witness ==
    /\ read.op = "search"
    /\ \E b \in read.logged : b.bucket = "quotes"
    /\ \E p \in Writers : pc[p] = "commit"

C19_OneRowPerPair ==
    \A r \in BagToSet(quote_tags) :
        BagCardinality([x \in {y \in RowsOfQuote(r.quote_id) : y.tag_id = r.tag_id} |->
                           quote_tags[x]]) = 1

\* The association rows of quote id, with their numbers.
RowsBagOfQuote(id) == [r \in RowsOfQuote(id) |-> quote_tags[r]]

\* C20: no step of create_with_tags changes sources, source_types or tags, nor
\* a quote row or an association row that exists: the tags of a quote stay as
\* they were at its creation.
C20_CreateKeepsExistingRows ==
    [][/\ UNCHANGED <<sources, source_types, tags>>
       /\ quotes \subseteq quotes'
       /\ \A q \in quotes : RowsBagOfQuote(q.id)' = RowsBagOfQuote(q.id)]_vars

\* Two quotes with association rows are stored and a call has failed.
C20_Witness ==
    /\ Cardinality({q \in quotes : RowsOfQuote(q.id) # {}}) = 2
    /\ \E p \in Writers : pc[p] = "replied" /\ result[p].kind = "error"

C22_OneTimestampPerCall ==
    /\ \A r1, r2 \in BagToSet(quote_tags) :
          /\ r1.inserted_at = r1.updated_at
          /\ r1.quote_id = r2.quote_id => r1.inserted_at = r2.inserted_at
    /\ \A p \in Writers : \A i, j \in 1..Len(txTags[p]) :
          /\ txTags[p][i].inserted_at = txTags[p][i].updated_at
          /\ txTags[p][i].inserted_at = txTags[p][j].inserted_at

\* A quote with rows for two tags is stored, and the rows of another quote
\* carry another timestamp.
C22_Witness ==
    \E r1, r2, r3 \in BagToSet(quote_tags) :
        /\ r1.quote_id = r2.quote_id /\ r1.tag_id # r2.tag_id
        /\ r3.quote_id # r1.quote_id /\ r3.inserted_at # r1.inserted_at

\* The quote that call p inserted is stored.
Committed(p) == \E q \in quotes : q.id = txId[p]

\* C23: create_quote returns the quote exactly when create_with_tags
\* committed, and an error that names the failing step exactly when it failed.
C23_ResolverMirrorsOutcome ==
    \A p \in Writers :
        pc[p] = "replied" =>
            /\ response[p].kind = "ok" <=> Committed(p)
            /\ response[p].kind = "ok" => response[p].quote = txId[p]
            /\ (response[p].kind = "error" /\ response[p].step \in {"quote", "quote_tags"})
                   <=> ~Committed(p)

\* C24: in the query result of a search no row is twice in a bucket, and a
\* source has one row for every distinct value of its matching columns.
C24_UnionRemovesDuplicates ==
    read.op = "search" =>
        /\ \A b \in read.logged : b.n = Cardinality(b.rows)
        /\ \A s \in sources :
              {r.text : r \in {x \in LoggedRows : x.source = "sources" /\ x.id = s.id}}
                  = {s[c] : c \in {k \in SearchColumns["sources"] :
                                      ILike(s[k], SearchPattern(read.text))}}

\* A search matched a source in two columns with one value and in a third
\* column with another value.
C24_Witness ==
    /\ read.op = "search"
    /\ \E s \in sources :
          /\ \E c1, c2 \in SearchColumns["sources"] :
                c1 # c2 /\ s[c1] = s[c2] /\ ILike(s[c1], SearchPattern(read.text))
          /\ Cardinality({x \in LoggedRows : x.source = "sources" /\ x.id = s.id}) = 2

\* C25: if the route stops changing (and the user stops dismissing the error
\* modal), the calls of fetchSource stop too, also after a query that failed.
C25_FetchingQuiesces ==
    (<>[][/\ props' = props
          /\ ~(state.graphqlError # Undefined /\ state'.graphqlError = Undefined)]_vars)
        => <>[][fetchCalls' = fetchCalls]_vars

\* C26: when no query is in flight and none has failed, the stored result and
\* the initial source of the form are those of the query for the current
\* state.sourceId.
C26_ResultIsOfCurrentSource ==
    (mounted /\ inflight = {} /\ state.graphqlError = Undefined /\ state.queryResult.defined) =>
        /\ state.queryResult.variables = state.sourceId
        /\ state.initialFormValues.source = QueryResult(state.sourceId).source

\* C27: the variables of a createQuote call are the outputs of the values
\* that are in the form at the submit.
C27_VariablesAreFormValues ==
    mutation.pending =>
        mutation.variables = validate(mutation.values, InitialFormOutputs).out

\* The error of the field key for the values of the form ("": none).
FieldError(key, values) == ValidateField(key, values[key], InitialFormOutputs).error

\* The fields of formOutputs that the validator of key sets.
OutputsOf(key) ==
    CASE key = "tags" -> {"tags"}
      [] key = "source" -> {"sourceId"}
      [] key = "quote" -> {"text"}
      [] key = "page" -> {"pageStart", "pageEnd"}
      [] key = "volumeIssue" -> {"volume", "issue"}
      [] key = "date" -> {"date"}
      [] key = "extras" -> {"extras"}

\* C28: a run of validate gives at most one error, none exactly when no
\* field has an error, else the error of the first field in key order that
\* has one; the validators of the later fields do not run and their fields
\* of formOutputs stay as they were.
C28_ValidateStopsAtFirstError ==
    [][(form'.ran # {} /\ form' # form) =>
          LET failing == {i \in 1..Len(FormKeys) : FieldError(FormKeys[i], form'.values) # ""}
              first == CHOOSE i \in failing : \A j \in failing : i <= j
          IN  /\ Cardinality(form'.errors) <= 1
              /\ form'.errors = {} <=> failing = {}
              /\ failing = {} => form'.ran = {FormKeys[i] : i \in 1..Len(FormKeys)}
              /\ failing # {} =>
                    /\ form'.errors = {[key |-> FormKeys[first],
                                        error |-> FieldError(FormKeys[first], form'.values)]}
                    /\ form'.ran = {FormKeys[i] : i \in 1..first}
                    /\ \A i \in (first + 1)..Len(FormKeys) : \A o \in OutputsOf(FormKeys[i]) :
                          state'.formOutputs[o] = state.formOutputs[o]]_vars

\* validate stopped at the date, after the quote; extras, which holds a
\* value, was not validated.
C28_Witness ==
    /\ \E e \in form.errors : e.key = "date"
    /\ form.ran = {"tags", "source", "quote", "page", "volumeIssue", "date"}
    /\ form.values.extras = "e"
    /\ state.formOutputs.text = "q"
    /\ state.formOutputs.extras = Undefined

\* C29: a call of createQuote that ends either resolved, and then the form
\* is reset, submittedSourceId is the id of the submitted source, the initial
\* tags are empty and graphqlError is as before; or it rejected, and then
\* graphqlError is the error, the form is not submitting, and the values of
\* the form, submittedSourceId and the initial tags are as before.
C29_SubmitOutcomes ==
    [][(mutation.pending /\ ~mutation'.pending) =>
          \/ /\ mutation'.outcome = "resolved"
             /\ form'.values = form'.initialValues
             /\ form'.errors = {}
             /\ ~form'.isSubmitting
             /\ state'.submittedSourceId = mutation.values.source
             /\ state'.initialFormValues.tags = <<>>
             /\ state'.graphqlError = state.graphqlError
          \/ /\ mutation'.outcome = "rejected"
             /\ state'.graphqlError = "GraphQL error"
             /\ ~form'.isSubmitting
             /\ form'.values = form.values
             /\ state'.submittedSourceId = state.submittedSourceId
             /\ state'.initialFormValues.tags = state.initialFormValues.tags]_vars

\* A call was rejected after an earlier one had resolved: the source of the
\* earlier one and the tags created since are kept.
C29_Witness ==
    /\ mutation.outcome = "rejected"
    /\ state.graphqlError = "GraphQL error"
    /\ state.submittedSourceId = "1"
    /\ state.initialFormValues.tags # <<>>
    /\ form.values # form.initialValues

=============================================================================
